---- MODULE Spec2Model ----
(***************************************************************************)
(* queuectl: a persistent job queue.  The jobs, dlq and config tables of   *)
(* the SQLite store, the worker threads' loop (claim, execute, retry with  *)
(* backoff, dead-letter) and the command-line / HTTP operations that       *)
(* submit jobs and re-admit dead-lettered ones.                            *)
(*                                                                         *)
(* Every SQL statement that commits on its own is one step: each Worker,   *)
(* the CLI and the API hold their own sqlite3 connection, so a SELECT and  *)
(* the UPDATE that follows it can be separated by any other connection's   *)
(* commit.                                                                 *)
(*                                                                         *)
(* Timestamps are datetime.utcnow().isoformat() strings of one fixed       *)
(* layout; SQLite compares them as text, which for that layout is the      *)
(* order of the instants.  They are modelled by the instant, in seconds.   *)
(***************************************************************************)
EXTENDS Integers, Sequences, FiniteSets, TLC

\* ------------------------------------------------------------------ bounds
NWorkers == 2           \* worker threads started by `worker start --count`
NJobs == 2              \* job ids the concurrent specifications submit
NOps == 1               \* concurrent `dlq retry` / POST /dlq/retry callers
MaxRetries == 2         \* max_retries values 0..MaxRetries are submitted
SchedJobs == 3          \* job ids of the scheduling specification
SchedTime == 2          \* the clock of the scheduling specifications stops here
RetryHorizon == 14      \* the clock of the retry specification stops here
MaxBase == 3            \* base_backoff values 1..MaxBase are configured
RetryBudget == 4        \* max_retries values 1..RetryBudget of the retry specification
HeartbeatHorizon == 2   \* seconds for which the heartbeat writes are followed
BackoffHorizon == 3     \* the clock of the backoff specification stops here

\* ------------------------------------------------------- program constants
NULL == -1              \* SQL NULL / Python None in an integer column
DefaultPriority == 5
DefaultMaxRetries == 3

Workers == 1..NWorkers
Ops == 1..NOps
Commands == {"true", "false"}

VARIABLES
    now,        \* datetime.utcnow(), in seconds
    jobs,       \* the jobs table: a function from the ids present to rows
    dlq,        \* the dlq table: a function from the ids present to rows
    config,     \* the config table: key -> text value
    wpc,        \* each worker's position in run / _fetch_pending_job / _process_job
    wjob,       \* each worker's local `row` / `job` dict
    wloc,       \* each worker's locals attempts, max_retries, base_backoff, delay, wake
    opc,        \* each DLQ caller's position in retry_job
    orow,       \* each DLQ caller's local `row` read from dlq
    oret,       \* each DLQ caller's last retry_job call: its argument and what it returned
    wexit,      \* each worker's subprocess result while it handles it
    stop_event, \* cli._stop_event, the threading.Event every Worker is given
    control,    \* the control table: key -> text value
    heartbeats, \* the worker_heartbeats table: worker_id -> row
    metrics,    \* the metrics table: the set of its rows
    wnext,      \* each worker's local next_hb
    ccall,      \* a Storage / Config caller's last writing call
    cret,       \* a Storage / Config caller's last reading call and what it returned
    wstart      \* what start_workers gave each Worker: its process and its worker_id

vars == <<now, jobs, dlq, config, wpc, wjob, wloc, opc, orow, oret,
          wexit, stop_event, control, heartbeats, metrics, wnext, ccall, cret, wstart>>

\* The stop event, the control table and the metrics table.
sigVars == <<stop_event, control, metrics>>

\* The locals of a program that calls Storage and Config directly.
apiVars == <<ccall, cret>>

\* ------------------------------------------------------------------- rows
\* dict.get(key, default)
Get(d, k, v) == IF k \in DOMAIN d THEN d[k] ELSE v

\* No call made yet.
NoCall == [op |-> "-"]

\* The row a worker holds when it holds none; None where get_job returns it.
NoJob ==
    [id |-> 0, command |-> "", state |-> "", attempts |-> 0, max_retries |-> 0,
     created_at |-> 0, updated_at |-> 0, run_at |-> NULL, priority |-> 0]

NoLoc == [attempts |-> 0, max_retries |-> 0, base_backoff |-> 0, delay |-> 0, wake |-> 0]

NoDlqRow == [id |-> 0, command |-> "", attempts |-> 0, max_retries |-> 0, failed_at |-> 0]

\* Job.from_dict: every field is taken from the input when it is there.
\* gen is the uuid4 drawn when the input carries no id, t is utcnow().
JobFromDict(data, gen, t) ==
    [id          |-> Get(data, "id", gen),
     command     |-> data["command"],
     state       |-> Get(data, "state", "pending"),
     attempts    |-> Get(data, "attempts", 0),
     max_retries |-> Get(data, "max_retries", DefaultMaxRetries),
     created_at  |-> Get(data, "created_at", t),
     updated_at  |-> Get(data, "updated_at", t),
     run_at      |-> Get(data, "run_at", NULL),
     priority    |-> Get(data, "priority", DefaultPriority)]

\* Upsert as INSERT OR IGNORE: a row that has that primary key is kept.
UpsertIgnore(table, row) ==
    [i \in DOMAIN table \cup {row.id} |-> IF i \in DOMAIN table THEN table[i] ELSE row]

\* INSERT OR REPLACE INTO <table> ... : the row with that primary key is replaced.
Upsert(table, row) ==
    [i \in DOMAIN table \cup {row.id} |-> IF i = row.id THEN row ELSE table[i]]

\* JobRow binding the seven original columns only: run_at and priority
\* take their column defaults.
JobRowLegacy(job) ==
    [id |-> job.id, command |-> job.command, state |-> job.state,
     attempts |-> job.attempts, max_retries |-> job.max_retries,
     created_at |-> job.created_at, updated_at |-> job.updated_at,
     run_at |-> NULL, priority |-> DefaultPriority]

\* Storage.add_job, the nine values bound to the nine columns of the INSERT.
JobRow(job) ==
    [id |-> job.id, command |-> job.command, state |-> job.state,
     attempts |-> job.attempts, max_retries |-> job.max_retries,
     created_at |-> job.created_at, updated_at |-> job.updated_at,
     run_at |-> job.run_at, priority |-> job.priority]

\* Storage.add_job
AddJob(job) == jobs' = Upsert(jobs, JobRow(job))

\* Storage.get_job: SELECT * FROM jobs WHERE id=?; dict(row) if row else None.
GetJob(table, id) == IF id \in DOMAIN table THEN table[id] ELSE NoJob

\* UpdateJobState without the attempts column.
UpdateJobStateKeepAttempts(table, id, st, att, t) ==
    [i \in DOMAIN table |->
        IF i = id THEN [table[i] EXCEPT !.state = st, !.updated_at = t] ELSE table[i]]

\* Storage.update_job_state: UPDATE jobs SET state, attempts, updated_at WHERE id=?
\* (no condition on the row's current state; no row, no change).
UpdateJobState(table, id, st, att, t) ==
    [i \in DOMAIN table |->
        IF i = id THEN [table[i] EXCEPT !.state = st, !.attempts = att, !.updated_at = t]
        ELSE table[i]]

\* Config.get, and the int() the worker applies to what it returns.
ConfigGet(key, default) == Get(config, key, default)
Digits == [s \in {"0", "1", "2", "3", "4", "5", "60"} |->
             CASE s = "0" -> 0 [] s = "1" -> 1 [] s = "2" -> 2 [] s = "3" -> 3
               [] s = "4" -> 4 [] s = "5" -> 5 [] s = "60" -> 60]
IsInt(s) == s \in DOMAIN Digits
ToInt(s) == Digits[s]

\* ---------------------------------------------------------- the claim query
\* IsDue that passes over a job that has been attempted.
IsDueFresh(r, t) == r.state = "pending" /\ r.attempts = 0 /\ (r.run_at = NULL \/ r.run_at <= t)

\* WHERE state='pending' AND (run_at IS NULL OR run_at <= ?)
IsDue(r, t) == r.state = "pending" /\ (r.run_at = NULL \/ r.run_at <= t)

\* COALESCE(run_at, created_at)
Coalesce(a, b) == IF a # NULL THEN a ELSE b

\* ORDER BY COALESCE(run_at, created_at), created_at
OrderBefore(r, q) ==
    \/ Coalesce(r.run_at, r.created_at) < Coalesce(q.run_at, q.created_at)
    \/ /\ Coalesce(r.run_at, r.created_at) = Coalesce(q.run_at, q.created_at)
       /\ r.created_at <= q.created_at

\* The rows LIMIT 1 may return: rows that tie in the ORDER BY come in an
\* order SQLite does not promise.
SelectPending(t) ==
    LET due == {i \in DOMAIN jobs : IsDue(jobs[i], t)}
    IN  {i \in due : \A k \in due : OrderBefore(jobs[i], jobs[k])}

\* -------------------------------------------------------------------- Init
\* Storage._create_tables: empty tables, the three default config rows.
SeedConfig ==
    [k \in {"max_retries", "base_backoff", "job_timeout_sec"} |->
        CASE k = "max_retries" -> "3" [] k = "base_backoff" -> "2" [] k = "job_timeout_sec" -> "60"]

\* start_workers in one process: Worker(i + 1, _stop_event) for i in range(count).
OneProcess == [w \in Workers |-> [proc |-> 1, worker_id |-> w]]

InitWorkers ==
    /\ wpc = [w \in Workers |-> "idle"]
    /\ wjob = [w \in Workers |-> NoJob]
    /\ wloc = [w \in Workers |-> NoLoc]
    /\ wexit = [w \in Workers |-> "-"]

\* Worker.__init__: self.worker_id = str(worker_id)
WorkerId(w) == wstart[w].worker_id

\* start_workers: _stop_event.clear(), set_control("shutdown", "0"); no
\* heartbeat row and no metric row yet.
InitSignals ==
    /\ stop_event = FALSE
    /\ control = [k \in {"shutdown"} |-> "0"]
    /\ heartbeats = << >>
    /\ wnext = [w \in Workers |-> 0]
    /\ metrics = {}
    /\ ccall = NoCall
    /\ cret = NoCall

InitOps ==
    /\ opc = [o \in Ops |-> "idle"]
    /\ orow = [o \in Ops |-> NoDlqRow]
    /\ oret = [o \in Ops |-> [id |-> 0, ret |-> "-"]]

\* Config.set(key, value): INSERT OR REPLACE INTO config, the value as str(value).
ConfigSet(table, key, value) ==
    [k \in DOMAIN table \cup {key} |-> IF k = key THEN value ELSE table[k]]

\* The store as constructed, with the config table given.
InitStarted(cfg, started) ==
    /\ now = 0
    /\ jobs = << >>
    /\ dlq = << >>
    /\ config = cfg
    /\ wstart = started
    /\ InitWorkers
    /\ InitOps
    /\ InitSignals

\* The same, the workers started by one `worker start`.
InitWith(cfg) == InitStarted(cfg, OneProcess)

\* The concurrent specifications run after `config set base_backoff 0`: a
\* backoff sleep of 0 s returns at once, so every interleaving of a retry
\* with the other workers' steps is reached without moving the clock.  The
\* timed behaviour of the backoff is SpecRetry's.
Init == InitWith(ConfigSet(SeedConfig, "base_backoff", "0"))

\* ------------------------------------------------------------------- time
Tick(limit) ==
    /\ now < limit
    /\ now' = now + 1
    /\ UNCHANGED <<jobs, dlq, config, wpc, wjob, wloc, opc, orow, oret, wexit, heartbeats, wnext, sigVars, apiVars, wstart>>

\* ------------------------------------------------------------- submission
\* job_data[key] = value
SetKey(d, k, v) == [x \in DOMAIN d \cup {k} |-> IF x = k THEN v ELSE d[x]]

\* _normalize_iso: "Z" becomes "+00:00", fromisoformat, then the tzinfo is
\* dropped and the wall-clock reading kept.
NormalizeIso(ts) == ts.wall

\* The --run-at option when it is not given.
NoRunAt == [wall |-> NULL, tz |-> ""]

\* A --run-at text datetime.fromisoformat accepts has a date, a time and
\* no zone, "Z" or an offset; of any other text only that it is refused
\* matters.
IsoZones == {"", "Z", "+00:00"}
IsIso(ts) == ts.wall # NULL /\ ts.tz \in IsoZones
BadRunAt == [wall |-> NULL, tz |-> "tomorrow"]

\* A run_at text inside the JSON input that is no ISO timestamp
\* ("tomorrow"): as text it sorts after every timestamp.
NotIso == 99

\* cli enqueue: the --run-at option (when given) is normalised, which raises
\* for a text that is no ISO timestamp, and written into the input dict, as
\* is the --priority option (default 5); Job.from_dict builds the job, which
\* raises KeyError without a command; add_job stores it in one commit.  Any
\* exception is caught and logged, and nothing is stored.
Enqueue(data, run_at, priority, gen) ==
    LET d1 == IF run_at # NoRunAt THEN SetKey(data, "run_at", NormalizeIso(run_at)) ELSE data
        d2 == SetKey(d1, "priority", priority)
        raises == \/ run_at # NoRunAt /\ ~IsIso(run_at)
                  \/ "command" \notin DOMAIN d2
    IN  /\ IF raises THEN UNCHANGED jobs ELSE AddJob(JobFromDict(d2, gen, now))
        /\ UNCHANGED <<now, dlq, config, wpc, wjob, wloc, opc, orow, oret, wexit, heartbeats, wnext, sigVars, apiVars, wstart>>

\* ------------------------------------------------------------ worker: claim
\* UpsertHeartbeat replacing the whole row (INSERT OR REPLACE).
UpsertHeartbeatReplace(table, w, t) ==
    [k \in DOMAIN table \cup {w} |->
        IF k = w THEN [worker_id |-> w, started_at |-> t, last_seen |-> t] ELSE table[k]]

\* Storage.upsert_heartbeat: INSERT (worker_id, .., started_at, last_seen)
\* VALUES (.., now, now) ON CONFLICT(worker_id) DO UPDATE SET last_seen.
\* (pid and hostname are the same for every worker of the process.)
UpsertHeartbeat(table, w, t) ==
    [k \in DOMAIN table \cup {w} |->
        IF k # w THEN table[k]
        ELSE IF w \in DOMAIN table THEN [table[w] EXCEPT !.last_seen = t]
        ELSE [worker_id |-> w, started_at |-> t, last_seen |-> t]]

\* Storage.remove_heartbeat
RemoveHeartbeat(w) ==
    heartbeats' = [k \in DOMAIN heartbeats \ {WorkerId(w)} |-> heartbeats[k]]

heartbeat_interval == 2

\* run: `if now >= next_hb: upsert_heartbeat(...); next_hb = now + 2`.
\* The heartbeat is followed for the first HeartbeatHorizon seconds only.
Heartbeat(w) ==
    IF now >= wnext[w] /\ now <= HeartbeatHorizon
    THEN /\ heartbeats' = UpsertHeartbeat(heartbeats, WorkerId(w), now)
         /\ wnext' = [wnext EXCEPT ![w] = now + heartbeat_interval]
    ELSE UNCHANGED <<heartbeats, wnext>>

\* One iteration of run up to the SELECT of _fetch_pending_job: the stop
\* event is not set, the heartbeat is written, a row is fetched.
FetchSelect(w) ==
    /\ wpc[w] = "idle"
    /\ ~stop_event
    /\ Heartbeat(w)
    /\ \E i \in SelectPending(now) :
          /\ wjob' = [wjob EXCEPT ![w] = jobs[i]]
          /\ wpc' = [wpc EXCEPT ![w] = "selected"]
    /\ UNCHANGED <<now, jobs, dlq, config, wloc, opc, orow, oret, wexit, sigVars, apiVars, wstart>>

\* _fetch_pending_job, the SELECT: no row; run sleeps 0.5 s and polls again.
FetchNone(w) ==
    /\ wpc[w] = "idle"
    /\ ~stop_event
    /\ Heartbeat(w)
    /\ SelectPending(now) = {}
    /\ UNCHANGED <<now, jobs, dlq, config, wpc, wjob, wloc, opc, orow, oret, wexit, sigVars, apiVars, wstart>>

\* StopObserved reading the stop event while a job is in hand as well.
StopObservedMidJob(w) == stop_event /\ wpc[w] \in {"idle", "claimed", "running"}

\* run: `while not self.stop_event.is_set()` is evaluated, at the top of
\* the loop only, with the event set.  (stop_event is the event of process
\* 1; no other process is interrupted.)
StopObserved(w) == stop_event /\ wstart[w].proc = 1 /\ wpc[w] = "idle"

\* run, the loop condition with the stop event set: the loop ends,
\* remove_heartbeat, the thread returns.
WorkerExit(w) ==
    /\ StopObserved(w)
    /\ RemoveHeartbeat(w)
    /\ wpc' = [wpc EXCEPT ![w] = "stopped"]
    /\ UNCHANGED <<now, jobs, dlq, config, wjob, wloc, opc, orow, oret, wexit, wnext, sigVars, apiVars, wstart>>

\* ClaimWhere with `AND state NOT IN ('completed','dead')` for `AND state='pending'`.
ClaimWhereUnfinished(id) ==
    id \in DOMAIN jobs /\ jobs[id].state \notin {"completed", "dead"}

\* ClaimWhere without its `AND state='pending'`.
ClaimWhereAnyState(id) == id \in DOMAIN jobs

\* The rows UPDATE ... WHERE id=? AND state='pending' matches.
ClaimWhere(id) == id \in DOMAIN jobs /\ jobs[id].state = "pending"

\* ClaimRow that counts the attempt at the claim.
ClaimRowCounting(row, t) ==
    [row EXCEPT !.state = "processing", !.updated_at = t, !.attempts = row.attempts + 1]

\* UPDATE jobs SET state='processing', updated_at=? : the row afterwards.
ClaimRow(row, t) == [row EXCEPT !.state = "processing", !.updated_at = t]

\* _fetch_pending_job, the UPDATE and its commit; rowcount decides the result.
ClaimUpdate(w) ==
    LET id == wjob[w].id
    IN  /\ wpc[w] = "selected"
        /\ IF ClaimWhere(id)
           THEN /\ jobs' = [jobs EXCEPT ![id] = ClaimRow(jobs[id], now)]
                /\ wpc' = [wpc EXCEPT ![w] = "claimed"]
                /\ UNCHANGED wjob
           ELSE /\ wpc' = [wpc EXCEPT ![w] = "idle"]
                /\ wjob' = [wjob EXCEPT ![w] = NoJob]
                /\ UNCHANGED jobs
        /\ UNCHANGED <<now, dlq, config, wloc, opc, orow, oret, wexit, heartbeats, wnext, sigVars, apiVars, wstart>>

\* ---------------------------------------------------------- worker: process
\* _process_job up to the subprocess: attempts, max_retries and the two
\* configuration reads (lines 94-97).
StartJob(w) ==
    /\ wpc[w] = "claimed"
    /\ IsInt(ConfigGet("base_backoff", "2"))
    /\ IsInt(ConfigGet("job_timeout_sec", "60"))
    /\ wloc' = [wloc EXCEPT ![w] =
                  [attempts     |-> wjob[w].attempts + 1,
                   max_retries  |-> wjob[w].max_retries,
                   base_backoff |-> ToInt(ConfigGet("base_backoff", "2")),
                   delay        |-> 0,
                   wake         |-> 0]]
    /\ wpc' = [wpc EXCEPT ![w] = "running"]
    /\ UNCHANGED <<now, jobs, dlq, config, wjob, opc, orow, oret, wexit, heartbeats, wnext, sigVars, apiVars, wstart>>

\* _process_job, lines 96-97: int() of a configuration value that is no
\* integer text raises ValueError, before the try block.  The exception
\* leaves _process_job and run; the claimed row is not written again.
ConfigValueError(w) ==
    /\ wpc[w] = "claimed"
    /\ \/ ~IsInt(ConfigGet("base_backoff", "2"))
       \/ ~IsInt(ConfigGet("job_timeout_sec", "60"))
    /\ wpc' = [wpc EXCEPT ![w] = "crashed"]
    /\ UNCHANGED <<now, jobs, dlq, config, wjob, wloc, opc, orow, oret, wexit, heartbeats, wnext, sigVars, apiVars, wstart>>

\* How subprocess.run(cmd, shell=True, check=True, timeout=timeout_sec) ends:
\* it returns (exit code 0), or raises CalledProcessError (non-zero exit),
\* TimeoutExpired, or another exception.
Outcomes == {"0", "nonzero", "timeout", "error"}
FailOutcomes == Outcomes \ {"0"}

\* Returns without `check=True`: a non-zero exit returns as well.
ReturnsUnchecked(rc) == rc \in {"0", "nonzero"}

\* subprocess.run returns instead of raising, and the try block goes on.
Returns(rc) == rc = "0"

\* subprocess.run ends in one of the ways rcs.
Exec(w, rcs) ==
    /\ wpc[w] = "running"
    /\ \E rc \in rcs : wexit' = [wexit EXCEPT ![w] = rc]
    /\ wpc' = [wpc EXCEPT ![w] = "exited"]
    /\ UNCHANGED <<now, jobs, dlq, config, wjob, wloc, opc, orow, oret, heartbeats, wnext, sigVars, apiVars, wstart>>

\* The subprocess exited 0: update_job_state(job_id, "completed", attempts).
RunOk(w) ==
    /\ wpc[w] = "exited"
    /\ Returns(wexit[w])
    /\ jobs' = UpdateJobState(jobs, wjob[w].id, "completed", wloc[w].attempts, now)
    /\ wpc' = [wpc EXCEPT ![w] = "idle"]
    /\ wjob' = [wjob EXCEPT ![w] = NoJob]
    /\ wloc' = [wloc EXCEPT ![w] = NoLoc]
    /\ wexit' = [wexit EXCEPT ![w] = "-"]
    /\ UNCHANGED <<now, dlq, config, opc, orow, oret, heartbeats, wnext, sigVars, apiVars, wstart>>

\* _process_job is in one of its three except clauses, each of which calls
\* _handle_failure: the subprocess raised, or ("caught") a statement of the
\* try block after it did.
InHandler(w) ==
    \/ wpc[w] = "exited" /\ wexit[w] \in FailOutcomes
    \/ wpc[w] = "caught"

\* ShouldRetry comparing the attempts count from before the increment.
ShouldRetryPrevious(attempts, max_retries) == attempts - 1 < max_retries

\* ShouldRetry with `<=` for `<`.
ShouldRetryInclusive(attempts, max_retries) == attempts <= max_retries

\* _handle_failure: `if attempts < max_retries`
ShouldRetry(attempts, max_retries) == attempts < max_retries

\* BackoffDelay with `*` for `**`.
BackoffLinear(base_backoff, attempts) == base_backoff * attempts

\* _handle_failure: delay = base_backoff ** attempts
BackoffDelay(base_backoff, attempts) == base_backoff ^ attempts

\* _handle_failure, the job is to be retried: the worker computes the delay and starts time.sleep(delay).
RunFailRetry(w) ==
    /\ InHandler(w)
    /\ ShouldRetry(wloc[w].attempts, wloc[w].max_retries)
    /\ LET delay == BackoffDelay(wloc[w].base_backoff, wloc[w].attempts)
       IN  wloc' = [wloc EXCEPT ![w].delay = delay, ![w].wake = now + delay]
    /\ wpc' = [wpc EXCEPT ![w] = "backoff"]
    /\ UNCHANGED <<now, jobs, dlq, config, wjob, opc, orow, oret, wexit, heartbeats, wnext, sigVars, apiVars, wstart>>

\* SleepReturns with the sleep left out.
SleepReturnsAtOnce(w) == TRUE

\* time.sleep(delay) returns when the delay has passed.
SleepReturns(w) == now >= wloc[w].wake

\* time.sleep(delay) returns: update_job_state(job_id, "pending", attempts).
BackoffDone(w) ==
    /\ wpc[w] = "backoff"
    /\ SleepReturns(w)
    /\ jobs' = UpdateJobState(jobs, wjob[w].id, "pending", wloc[w].attempts, now)
    /\ wpc' = [wpc EXCEPT ![w] = "idle"]
    /\ wjob' = [wjob EXCEPT ![w] = NoJob]
    /\ wloc' = [wloc EXCEPT ![w] = NoLoc]
    /\ wexit' = [wexit EXCEPT ![w] = "-"]
    /\ UNCHANGED <<now, dlq, config, opc, orow, oret, heartbeats, wnext, sigVars, apiVars, wstart>>

\* _handle_failure, the retries are exhausted: the local job dict
\* takes attempts and max_retries, update_job_state(job_id, "dead", attempts).
RunFailDead(w) ==
    /\ InHandler(w)
    /\ ~ShouldRetry(wloc[w].attempts, wloc[w].max_retries)
    /\ wjob' = [wjob EXCEPT ![w].attempts = wloc[w].attempts,
                            ![w].max_retries = wloc[w].max_retries]
    /\ jobs' = UpdateJobState(jobs, wjob[w].id, "dead", wloc[w].attempts, now)
    /\ wpc' = [wpc EXCEPT ![w] = "dlq"]
    /\ UNCHANGED <<now, dlq, config, wloc, opc, orow, oret, wexit, heartbeats, wnext, sigVars, apiVars, wstart>>

\* The row DLQManager.add_to_dlq writes for a job dict.
DlqRecord(job, t) ==
    [id |-> job.id, command |-> job.command, attempts |-> job.attempts,
     max_retries |-> job.max_retries, failed_at |-> t]

\* DLQManager.add_to_dlq(job): INSERT OR REPLACE INTO dlq, committed.
AddToDlq(w) ==
    /\ wpc[w] = "dlq"
    /\ dlq' = Upsert(dlq, DlqRecord(wjob[w], now))
    /\ wpc' = [wpc EXCEPT ![w] = "idle"]
    /\ wjob' = [wjob EXCEPT ![w] = NoJob]
    /\ wloc' = [wloc EXCEPT ![w] = NoLoc]
    /\ wexit' = [wexit EXCEPT ![w] = "-"]
    /\ UNCHANGED <<now, jobs, config, opc, orow, oret, heartbeats, wnext, sigVars, apiVars, wstart>>

\* ------------------------------------------------------------- DLQ retry
\* retry_job, SELECT * FROM dlq WHERE id=?: no row, return None.
RetryNotFound(o, id) ==
    /\ opc[o] = "idle"
    /\ id \notin DOMAIN dlq
    /\ oret' = [oret EXCEPT ![o] = [id |-> id, ret |-> "None"]]
    /\ UNCHANGED <<now, jobs, dlq, config, wpc, wjob, wloc, opc, orow, wexit, heartbeats, wnext, sigVars, apiVars, wstart>>

\* retry_job, SELECT * FROM dlq WHERE id=?: the row is read.
RetryFound(o, id) ==
    /\ opc[o] = "idle"
    /\ id \in DOMAIN dlq
    /\ orow' = [orow EXCEPT ![o] = dlq[id]]
    /\ opc' = [opc EXCEPT ![o] = "found"]
    /\ oret' = [oret EXCEPT ![o] = [id |-> id, ret |-> "-"]]
    /\ UNCHANGED <<now, jobs, dlq, config, wpc, wjob, wloc, wexit, heartbeats, wnext, sigVars, apiVars, wstart>>

\* RetryRow that keeps the run_at and the priority of the row it replaces.
RetryRowKeepSchedule(row, t) ==
    [id          |-> row.id,
     command     |-> row.command,
     state       |-> "pending",
     attempts    |-> 0,
     max_retries |-> row.max_retries,
     created_at  |-> t,
     updated_at  |-> t,
     run_at      |-> IF row.id \in DOMAIN jobs THEN jobs[row.id].run_at ELSE NULL,
     priority    |-> IF row.id \in DOMAIN jobs THEN jobs[row.id].priority ELSE DefaultPriority]

\* RetryRow that resumes: the dlq row's attempts are kept.
RetryRowResume(row, t) ==
    [id          |-> row.id,
     command     |-> row.command,
     state       |-> "pending",
     attempts    |-> row.attempts,
     max_retries |-> row.max_retries,
     created_at  |-> t,
     updated_at  |-> t,
     run_at      |-> NULL,
     priority    |-> DefaultPriority]

\* The jobs row retry_job inserts for a dlq row: Job.from_dict of its command
\* and max_retries, the dlq row's id, attempts 0, state pending; the INSERT
\* names no run_at and no priority, so they take the columns' defaults.
RetryRow(row, t) ==
    [id          |-> row.id,
     command     |-> row.command,
     state       |-> "pending",
     attempts    |-> 0,
     max_retries |-> row.max_retries,
     created_at  |-> t,
     updated_at  |-> t,
     run_at      |-> NULL,
     priority    |-> DefaultPriority]

\* Delete that deletes nothing.
DeleteNothing(table, id) == table

\* DELETE FROM <table> WHERE id=?
Delete(table, id) == [i \in DOMAIN table \ {id} |-> table[i]]

\* retry_job, the INSERT OR REPLACE INTO jobs and the DELETE FROM dlq, one commit.
RetryCommit(o) ==
    /\ opc[o] = "found"
    /\ jobs' = Upsert(jobs, RetryRow(orow[o], now))
    /\ dlq' = Delete(dlq, orow[o].id)
    /\ oret' = [oret EXCEPT ![o] = [id |-> orow[o].id, ret |-> "Job"]]
    /\ opc' = [opc EXCEPT ![o] = "idle"]
    /\ orow' = [orow EXCEPT ![o] = NoDlqRow]
    /\ UNCHANGED <<now, config, wpc, wjob, wloc, wexit, heartbeats, wnext, sigVars, apiVars, wstart>>

\* --------------------------------------------------------- specifications
\* What `enqueue '<json>'` is given in the concurrent specifications.
ConcIds == 1..NJobs
ConcInputs ==
    {[command |-> c, max_retries |-> m] : c \in Commands, m \in 0..MaxRetries}

SubmitNew ==
    \E data \in ConcInputs : \E gen \in ConcIds \ DOMAIN jobs :
        Enqueue(data, NoRunAt, DefaultPriority, gen)

\* The subprocess results of the concurrent specifications.
ConcOutcomes == {"0", "nonzero"}

WorkerStep(w) ==
    \/ FetchSelect(w)
    \/ FetchNone(w)
    \/ ClaimUpdate(w)
    \/ StartJob(w)
    \/ Exec(w, ConcOutcomes)
    \/ RunOk(w)
    \/ RunFailRetry(w)
    \/ BackoffDone(w)
    \/ RunFailDead(w)
    \/ AddToDlq(w)

OpStep(o) ==
    \/ \E id \in ConcIds : RetryNotFound(o, id)
    \/ \E id \in ConcIds : RetryFound(o, id)
    \/ RetryCommit(o)

\* Workers, submissions under new ids, and DLQ retries.
Next ==
    \/ SubmitNew
    \/ \E w \in Workers : WorkerStep(w)
    \/ \E o \in Ops : OpStep(o)

Spec == Init /\ [][Next]_vars

\* A DLQ caller that calls retry_job once.
OpOnce(o) ==
    \/ oret[o].id = 0 /\ \E id \in ConcIds : RetryNotFound(o, id) \/ RetryFound(o, id)
    \/ RetryCommit(o)

\* The finite specification: finitely many jobs are submitted (under new
\* ids) and retried, and every worker thread is scheduled again and again.
NextFinite ==
    \/ SubmitNew
    \/ \E w \in Workers : WorkerStep(w)
    \/ \E o \in Ops : OpOnce(o)

SpecFinite ==
    /\ Init /\ [][NextFinite]_vars
    /\ \A w \in Workers : WF_vars(WorkerStep(w))

\* Workers and submissions under new ids alone.
NextDistinct ==
    \/ SubmitNew
    \/ \E w \in Workers : WorkerStep(w)

SpecDistinct == Init /\ [][NextDistinct]_vars

\* The same with every worker thread scheduled again and again (no worker
\* crashes, every statement on the store and every execution returns).
SpecDistinctFair == SpecDistinct /\ \A w \in Workers : WF_vars(WorkerStep(w))

\* start_workers, KeyboardInterrupt: _stop_event.set().
SetStopEvent ==
    /\ ~stop_event
    /\ stop_event' = TRUE
    /\ UNCHANGED <<now, jobs, dlq, config, wpc, wjob, wloc, opc, orow, oret, wexit,
                   heartbeats, wnext, control, metrics, apiVars, wstart>>

\* Storage.set_control(key, value): INSERT OR REPLACE INTO control.
SetControl(table, key, value) ==
    [k \in DOMAIN table \cup {key} |-> IF k = key THEN value ELSE table[k]]

\* `worker stop`: set_control("shutdown", "1").
StopWorkers ==
    /\ control["shutdown"] # "1"
    /\ control' = SetControl(control, "shutdown", "1")
    /\ UNCHANGED <<now, jobs, dlq, config, wpc, wjob, wloc, opc, orow, oret, wexit,
                   heartbeats, wnext, stop_event, metrics, apiVars, wstart>>

\* The shutdown specification: every worker, submissions under new ids,
\* Ctrl+C in the process that started the workers, and `worker stop`.
StoppableWorkerStep(w) ==
    \/ WorkerStep(w)
    \/ WorkerExit(w)

NextStop ==
    \/ SubmitNew
    \/ SetStopEvent
    \/ StopWorkers
    \/ \E w \in Workers : StoppableWorkerStep(w)

SpecStop == Init /\ [][NextStop]_vars

\* The same with every worker thread scheduled again and again; nothing
\* obliges anyone to press Ctrl+C or to run `worker stop`.
SpecStopFair ==
    SpecStop /\ \A w \in Workers : WF_vars(StoppableWorkerStep(w))

\* ---------------------------------------------------------- storage faults
\* A statement on the store raises (sqlite3.OperationalError: the database
\* is locked, the disk fails).  Outside a try block the exception leaves
\* run and ends the thread.
Raise(w) == wpc' = [wpc EXCEPT ![w] = "crashed"]

\* run: upsert_heartbeat raises (line 45, in no try block).
HeartbeatFault(w) ==
    /\ wpc[w] = "idle"
    /\ ~stop_event
    /\ now >= wnext[w] /\ now <= HeartbeatHorizon
    /\ Raise(w)
    /\ UNCHANGED <<now, jobs, dlq, config, wjob, wloc, opc, orow, oret, wexit, heartbeats, wnext, sigVars, apiVars, wstart>>

\* _fetch_pending_job: the SELECT raises (lines 63-68, in no try block).
SelectFault(w) ==
    /\ wpc[w] = "idle"
    /\ ~stop_event
    /\ Heartbeat(w)
    /\ Raise(w)
    /\ UNCHANGED <<now, jobs, dlq, config, wjob, wloc, opc, orow, oret, wexit, sigVars, apiVars, wstart>>

\* _fetch_pending_job: the UPDATE or its commit raises (lines 74-78).
ClaimFault(w) ==
    /\ wpc[w] = "selected"
    /\ Raise(w)
    /\ UNCHANGED <<now, jobs, dlq, config, wjob, wloc, opc, orow, oret, wexit, heartbeats, wnext, sigVars, apiVars, wstart>>

\* _process_job: a Config.get raises (lines 96-97, before the try block).
ConfigFault(w) ==
    /\ wpc[w] = "claimed"
    /\ Raise(w)
    /\ UNCHANGED <<now, jobs, dlq, config, wjob, wloc, opc, orow, oret, wexit, heartbeats, wnext, sigVars, apiVars, wstart>>

\* _process_job: the subprocess exited 0 and update_job_state(job_id,
\* "completed", attempts) raises (line 125, inside the try block): the
\* `except Exception` clause (line 136) catches it.
CompletedWriteFault(w) ==
    /\ wpc[w] = "exited"
    /\ Returns(wexit[w])
    /\ wpc' = [wpc EXCEPT ![w] = "caught"]
    /\ UNCHANGED <<now, jobs, dlq, config, wjob, wloc, opc, orow, oret, wexit, heartbeats, wnext, sigVars, apiVars, wstart>>

\* _handle_failure: update_job_state(job_id, "pending", attempts) raises
\* (line 148, called from an except clause).
PendingWriteFault(w) ==
    /\ wpc[w] = "backoff"
    /\ now >= wloc[w].wake
    /\ Raise(w)
    /\ UNCHANGED <<now, jobs, dlq, config, wjob, wloc, opc, orow, oret, wexit, heartbeats, wnext, sigVars, apiVars, wstart>>

\* _handle_failure: update_job_state(job_id, "dead", attempts) raises (line 153).
DeadWriteFault(w) ==
    /\ InHandler(w)
    /\ ~ShouldRetry(wloc[w].attempts, wloc[w].max_retries)
    /\ Raise(w)
    /\ UNCHANGED <<now, jobs, dlq, config, wjob, wloc, opc, orow, oret, wexit, heartbeats, wnext, sigVars, apiVars, wstart>>

\* _handle_failure: add_to_dlq raises (line 154).
DlqWriteFault(w) ==
    /\ wpc[w] = "dlq"
    /\ Raise(w)
    /\ UNCHANGED <<now, jobs, dlq, config, wjob, wloc, opc, orow, oret, wexit, heartbeats, wnext, sigVars, apiVars, wstart>>

FaultStep(w) ==
    \/ HeartbeatFault(w)
    \/ SelectFault(w)
    \/ ClaimFault(w)
    \/ ConfigFault(w)
    \/ CompletedWriteFault(w)
    \/ PendingWriteFault(w)
    \/ DeadWriteFault(w)
    \/ DlqWriteFault(w)

\* The outcome specification: one worker, every way an execution can end.
OutcomeWorkers == {1}

AnyOutcomeWorkerStep(w) ==
    \/ FetchSelect(w)
    \/ FetchNone(w)
    \/ ClaimUpdate(w)
    \/ StartJob(w)
    \/ Exec(w, Outcomes)
    \/ RunOk(w)
    \/ RunFailRetry(w)
    \/ BackoffDone(w)
    \/ RunFailDead(w)
    \/ AddToDlq(w)

NextOutcome ==
    \/ SubmitNew
    \/ \E w \in OutcomeWorkers : AnyOutcomeWorkerStep(w)

SpecOutcome == Init /\ [][NextOutcome]_vars

\* The fault specification: one worker, every way an execution can end,
\* any statement on the store may raise.
FaultWorkers == {1}

NextFault ==
    \/ SubmitNew
    \/ \E w \in FaultWorkers : AnyOutcomeWorkerStep(w)
    \/ \E w \in FaultWorkers : FaultStep(w)

SpecFault == Init /\ [][NextFault]_vars

\* The same where the store is reachable again and again and the worker
\* thread is scheduled: a statement that can be executed without a fault
\* eventually is.
SpecFaultFair ==
    SpecFault /\ \A w \in FaultWorkers : WF_vars(AnyOutcomeWorkerStep(w))

\* The retry specification: one worker, one job whose every execution
\* fails, the clock running, base_backoff configured to 1..MaxBase.
RetryWorkers == {1}
RetryIds == {1}
RetryInputs == {[command |-> "false", max_retries |-> m] : m \in 1..RetryBudget}
StrOf(n) == CHOOSE s \in DOMAIN Digits : Digits[s] = n

InitRetry ==
    \E b \in 1..MaxBase : InitWith(ConfigSet(SeedConfig, "base_backoff", StrOf(b)))

SubmitRetry ==
    \E data \in RetryInputs : \E gen \in RetryIds \ DOMAIN jobs :
        Enqueue(data, NoRunAt, DefaultPriority, gen)

FailingWorkerStep(w) ==
    \/ FetchSelect(w)
    \/ FetchNone(w)
    \/ ClaimUpdate(w)
    \/ StartJob(w)
    \/ Exec(w, {"nonzero"})
    \/ RunFailRetry(w)
    \/ BackoffDone(w)
    \/ RunFailDead(w)
    \/ AddToDlq(w)

NextRetry ==
    \/ Tick(RetryHorizon)
    \/ SubmitRetry
    \/ \E w \in RetryWorkers : FailingWorkerStep(w)

SpecRetry == InitRetry /\ [][NextRetry]_vars

\* The scheduling specification: one worker, the clock running, jobs
\* submitted under new ids with --priority 0 or 1, with and without --run-at,
\* every execution succeeding.
SchedWorkers == {1}
SchedIds == 1..SchedJobs
SchedPriorities == {0, 1}
SchedRunAt == {NoRunAt} \cup {[wall |-> t, tz |-> "Z"] : t \in 1..SchedTime}
SchedInputs == {[command |-> "true"]}

SubmitSched ==
    \E data \in SchedInputs : \E gen \in SchedIds \ DOMAIN jobs :
        \E ra \in SchedRunAt : \E p \in SchedPriorities :
            Enqueue(data, ra, p, gen)

SucceedingWorkerStep(w) ==
    \/ FetchSelect(w)
    \/ FetchNone(w)
    \/ ClaimUpdate(w)
    \/ StartJob(w)
    \/ Exec(w, {"0"})
    \/ RunOk(w)

NextSched ==
    \/ Tick(SchedTime)
    \/ SubmitSched
    \/ \E w \in SchedWorkers : SucceedingWorkerStep(w)

InitSched == InitWith(SeedConfig)

SpecSched == InitSched /\ [][NextSched]_vars

\* The re-scheduling specification: every worker, the clock running, one id
\* submitted and submitted again (`enqueue '{"id": ..., "command": ...}'`)
\* with and without --run-at, every execution succeeding.
ReschedIds == {1}

SubmitResched ==
    \E data \in SchedInputs : \E gen \in ReschedIds \ DOMAIN jobs :
        \E ra \in SchedRunAt : \E p \in SchedPriorities :
            Enqueue(data, ra, p, gen)

ResubmitResched ==
    \E data \in SchedInputs : \E id \in ReschedIds \cap DOMAIN jobs :
        \E ra \in SchedRunAt : \E p \in SchedPriorities :
            Enqueue(SetKey(data, "id", id), ra, p, id)

NextResched ==
    \/ Tick(SchedTime)
    \/ SubmitResched
    \/ ResubmitResched
    \/ \E w \in Workers : SucceedingWorkerStep(w)

SpecResched == InitSched /\ [][NextResched]_vars

\* The submission specification: one worker, every execution succeeding,
\* and `enqueue` with input of every shape: with and without a command, with
\* a run_at, state, attempts or unknown field inside the JSON, with a
\* --run-at option that is or is not an ISO timestamp.
SubmitIds == 1..NJobs
SubmitInputs ==
    {[command |-> "true"],
     [command |-> "true", run_at |-> 1],
     [command |-> "true", run_at |-> NotIso],
     [command |-> "true", state |-> "completed", attempts |-> 2],
     [command |-> "true", state |-> "failed"],
     [command |-> "true", note |-> "x"],
     [max_retries |-> 1]}
SubmitRunAt == {NoRunAt, [wall |-> 1, tz |-> "Z"], BadRunAt}

SubmitAny ==
    \E data \in SubmitInputs : \E gen \in SubmitIds \ DOMAIN jobs :
        \E ra \in SubmitRunAt : Enqueue(data, ra, DefaultPriority, gen)

NextSubmit ==
    \/ Tick(SchedTime)
    \/ SubmitAny
    \/ \E w \in SchedWorkers : SucceedingWorkerStep(w)

SpecSubmit == InitSched /\ [][NextSubmit]_vars

\* The configured specification: after `config set max_retries 5` (and
\* base_backoff 0), jobs whose every execution fails are submitted without
\* a max_retries of their own and run by one worker.
ConfiguredInputs == {[command |-> "false"]}

InitConfigured ==
    InitWith(ConfigSet(ConfigSet(SeedConfig, "base_backoff", "0"), "max_retries", "5"))

SubmitConfigured ==
    \E data \in ConfiguredInputs : \E gen \in SubmitIds \ DOMAIN jobs :
        Enqueue(data, NoRunAt, DefaultPriority, gen)

NextConfigured ==
    \/ SubmitConfigured
    \/ \E w \in RetryWorkers : FailingWorkerStep(w)

SpecConfigured == InitConfigured /\ [][NextConfigured]_vars

\* The storage specification: a program that calls Storage.add_job and
\* Storage.get_job directly, as tests/test_enqueue.py does, with Job objects
\* of every state, attempts, max_retries, run_at and priority.
StoreIds == 1..NJobs
StoreJobs ==
    [id : StoreIds, command : {"echo test"}, state : {"pending", "completed"},
     attempts : {0, 1}, max_retries : {0, DefaultMaxRetries}, created_at : {0},
     updated_at : {0}, run_at : {NULL, 1}, priority : {0, DefaultPriority}]

\* s.add_job(job)
StoreAdd(job) ==
    /\ AddJob(job)
    /\ ccall' = [op |-> "add_job", job |-> job, seq |-> 1 - Get(ccall, "seq", 0)]
    /\ cret' = NoCall
    /\ UNCHANGED <<now, dlq, config, wpc, wjob, wloc, opc, orow, oret, wexit, heartbeats, wnext, sigVars, wstart>>

\* s.get_job(id)
StoreGet(id) ==
    /\ cret' = [op |-> "get_job", id |-> id, row |-> GetJob(jobs, id)]
    /\ UNCHANGED <<now, jobs, dlq, config, wpc, wjob, wloc, opc, orow, oret, wexit, heartbeats, wnext, sigVars, ccall, wstart>>

NextStore ==
    \/ \E job \in StoreJobs : StoreAdd(job)
    \/ \E id \in StoreIds \cup {NJobs + 1} : StoreGet(id)

SpecStore == Init /\ [][NextStore]_vars

\* The re-admission specification: a worker, DLQ retries, and a program
\* that submits jobs under ids of its own choice, new or already stored.
ReadmitWorkers == {1}
ReadmitIds == 1..NJobs
ReadmitInputs == {[command |-> c, max_retries |-> MaxRetries] : c \in Commands}

SubmitAgain ==
    \E data \in ReadmitInputs : \E id \in ReadmitIds :
        StoreAdd(JobFromDict(SetKey(data, "id", id), id, now))

NextReadmit ==
    \/ SubmitAgain
    \/ \E w \in ReadmitWorkers : WorkerStep(w)
    \/ \E o \in Ops : OpStep(o)

SpecReadmit == Init /\ [][NextReadmit]_vars

\* ----------------------------------------------------------- configuration
\* CreateTables writing the defaults with INSERT OR REPLACE.
CreateTablesReplace(table) ==
    [k \in DOMAIN table \cup DOMAIN SeedConfig |->
        IF k \in DOMAIN SeedConfig THEN SeedConfig[k] ELSE table[k]]

\* Storage._create_tables on a config table that may hold rows:
\* INSERT OR IGNORE INTO config (key, value) for the three defaults.
CreateTables(table) ==
    [k \in DOMAIN table \cup DOMAIN SeedConfig |->
        IF k \in DOMAIN table THEN table[k] ELSE SeedConfig[k]]

\* str(value): a value is a text or an integer.
Str(value) == IF "int" \in DOMAIN value THEN StrOf(value.int) ELSE value.text

\* Any command or program that constructs a Storage.
StorageInit ==
    /\ config' = CreateTables(config)
    /\ UNCHANGED <<now, jobs, dlq, wpc, wjob, wloc, opc, orow, oret, wexit, heartbeats, wnext, sigVars, apiVars, wstart>>

\* `config set key value`: Config() constructs a Storage, then Config.set.
ConfigSetCall(key, value) ==
    /\ config' = ConfigSet(CreateTables(config), key, Str(value))
    /\ ccall' = [op |-> "set", key |-> key, value |-> value, seq |-> 1 - Get(ccall, "seq", 0)]
    /\ cret' = NoCall
    /\ UNCHANGED <<now, jobs, dlq, wpc, wjob, wloc, opc, orow, oret, wexit, heartbeats, wnext, sigVars, wstart>>

\* Config().get(key, default)
ConfigGetCall(key, default) ==
    /\ config' = CreateTables(config)
    /\ cret' = [op |-> "get", key |-> key, default |-> default,
                value |-> Get(CreateTables(config), key, default)]
    /\ UNCHANGED <<now, jobs, dlq, wpc, wjob, wloc, opc, orow, oret, wexit, heartbeats, wnext, sigVars, ccall, wstart>>

\* The configuration specification: a database file without rows, and
\* programs that construct Storage and call Config.set and Config.get.
ConfigKeys == {"max_retries", "base_backoff", "job_timeout_sec", "poll_interval"}
ConfigValues == {[text |-> "fast"], [text |-> "4"], [int |-> 5], [int |-> 0]}

InitConfig == InitWith(<< >>)

NextConfig ==
    \/ StorageInit
    \/ \E key \in ConfigKeys : \E value \in ConfigValues : ConfigSetCall(key, value)
    \/ \E key \in ConfigKeys : ConfigGetCall(key, "default")

SpecConfig == InitConfig /\ [][NextConfig]_vars

\* The operator specification: one worker, every way an execution can
\* end, and an operator who sets base_backoff and job_timeout_sec.
OperatorValues == {[text |-> "fast"], [int |-> 0]}

OperatorSet ==
    \E key \in {"base_backoff", "job_timeout_sec"} : \E value \in OperatorValues :
        ConfigSetCall(key, value)

NextOperator ==
    \/ SubmitNew
    \/ OperatorSet
    \/ \E w \in OutcomeWorkers : AnyOutcomeWorkerStep(w) \/ ConfigValueError(w)

SpecOperator == Init /\ [][NextOperator]_vars

\* The heartbeat specification: every worker with a running clock, one
\* job id, and Ctrl+C; every worker thread is scheduled again and again.
HeartbeatIds == {1}

SubmitHeartbeat ==
    \E data \in ConcInputs : \E gen \in HeartbeatIds \ DOMAIN jobs :
        Enqueue(data, NoRunAt, DefaultPriority, gen)

NextHeartbeat ==
    \/ Tick(HeartbeatHorizon)
    \/ SubmitHeartbeat
    \/ SetStopEvent
    \/ \E w \in Workers : StoppableWorkerStep(w)

SpecHeartbeat ==
    /\ Init /\ [][NextHeartbeat]_vars
    /\ \A w \in Workers : WF_vars(StoppableWorkerStep(w))

\* The backoff specification: every worker, the clock running, the seeded
\* base_backoff of 2, jobs with one retry submitted under new ids.
BackoffInputs == {[command |-> "false", max_retries |-> MaxRetries]}

InitBackoff == InitWith(SeedConfig)

SubmitBackoff ==
    \E data \in BackoffInputs : \E gen \in ConcIds \ DOMAIN jobs :
        Enqueue(data, NoRunAt, DefaultPriority, gen)

NextBackoff ==
    \/ Tick(BackoffHorizon)
    \/ SubmitBackoff
    \/ \E w \in Workers : WorkerStep(w)

SpecBackoff == InitBackoff /\ [][NextBackoff]_vars

\* The in-flight specification: every worker, DLQ retries, and a program
\* that submits one job id again and again, also while it is worked on.
InFlightIds == {1}
InFlightInputs == {[command |-> "false", max_retries |-> MaxRetries]}

SubmitInFlight ==
    \E data \in InFlightInputs : \E id \in InFlightIds :
        StoreAdd(JobFromDict(SetKey(data, "id", id), id, now))

NextInFlight ==
    \/ SubmitInFlight
    \/ \E w \in Workers : WorkerStep(w)
    \/ \E o \in Ops : \/ \E id \in InFlightIds : RetryNotFound(o, id) \/ RetryFound(o, id)
                       \/ RetryCommit(o)

SpecInFlight == Init /\ [][NextInFlight]_vars

\* The two-starts specification: `worker start --count 1` run in two
\* processes against the same store, the clock running, one job id, and
\* Ctrl+C in the first process.
TwoProcesses == [w \in Workers |-> [proc |-> w, worker_id |-> 1]]

InitTwoStarts == InitStarted(ConfigSet(SeedConfig, "base_backoff", "0"), TwoProcesses)

SpecTwoStarts == InitTwoStarts /\ [][NextHeartbeat]_vars

\* The scheduled-retry specification: one worker, the clock running, one
\* job whose every execution fails, submitted with --run-at and with
\* --priority 0 or 1, and DLQ retries.
NextDead ==
    \/ Tick(SchedTime)
    \/ \E data \in RetryInputs : \E gen \in RetryIds \ DOMAIN jobs :
           \E ra \in SchedRunAt \ {NoRunAt} : \E p \in SchedPriorities :
               Enqueue(data, ra, p, gen)
    \/ \E w \in RetryWorkers : FailingWorkerStep(w)
    \/ \E o \in Ops : \/ \E id \in RetryIds : RetryNotFound(o, id) \/ RetryFound(o, id)
                       \/ RetryCommit(o)

SpecDead == InitRetry /\ [][NextDead]_vars

\* A worker is handling a job from the UPDATE that claimed it until its
\* outcome (and, for a dead job, its DLQ record) is written.
Handling == {"claimed", "running", "exited", "caught", "backoff", "dlq"}

\* The crash specification: workers and submissions under new ids; the
\* process of a worker that has a job in hand may be killed at any point.
Kill(w) ==
    /\ wpc[w] \in Handling
    /\ wpc' = [wpc EXCEPT ![w] = "crashed"]
    /\ UNCHANGED <<now, jobs, dlq, config, wjob, wloc, opc, orow, oret, wexit, heartbeats, wnext, sigVars, apiVars, wstart>>

NextCrash ==
    \/ SubmitNew
    \/ \E w \in Workers : WorkerStep(w) \/ Kill(w)

SpecCrash == Init /\ [][NextCrash]_vars

\* ------------------------------------------------------------------ claims

\* C1: at-most-one-claim.  A worker's claim returns the job only in a step
\* that finds the row pending and makes it processing, which ends the pending
\* episode for every other worker; a worker whose UPDATE finds the row no
\* longer pending changes nothing and returns None.
C1_AtMostOneClaim ==
    [][\A w \in Workers :
          /\ (wpc[w] = "selected" /\ wpc'[w] = "claimed") =>
                /\ wjob[w].id \in DOMAIN jobs
                /\ jobs[wjob[w].id].state = "pending"
                /\ jobs'[wjob[w].id].state = "processing"
                /\ \A v \in Workers \ {w} : wpc'[v] = wpc[v]
          /\ (wpc[w] = "selected" /\ wpc'[w] = "idle") =>
                /\ jobs' = jobs
                /\ wjob[w].id \in DOMAIN jobs
                /\ jobs[wjob[w].id].state # "pending"]_vars

\* Two workers selected the same row, one has claimed it, the other has
\* not run its UPDATE yet.
C1_Witness ==
    \E w, v \in Workers :
        /\ w # v
        /\ wpc[w] = "claimed"
        /\ wpc[v] = "selected"
        /\ wjob[v].id = wjob[w].id
        /\ jobs[wjob[w].id].state = "processing"

\* C2: at-most-one-active-execution.  With jobs submitted under distinct ids,
\* no job id is being handled by two workers at once.
C2_AtMostOneActive ==
    \A id \in DOMAIN jobs :
        Cardinality({w \in Workers : wpc[w] \in Handling /\ wjob[w].id = id}) <= 1

\* A worker has claimed a job with a row it selected before another worker
\* claimed, failed and returned the job to pending.
C2_Witness ==
    \E w \in Workers :
        /\ wpc[w] = "claimed"
        /\ wjob[w].attempts < jobs[wjob[w].id].attempts

\* C3: the retry decision.  With attempts = previous attempts + 1: below
\* max_retries the worker sleeps and then returns the row to pending with
\* the new attempts, writing no DLQ record; otherwise it sets the row dead at
\* once (the row stays in the table) and then writes a DLQ record with the
\* job's id, command, attempts and max_retries.
C3_RetryDecision ==
    [][\A w \in Workers :
          LET id == wjob[w].id
              attempts == wjob[w].attempts + 1
          IN  /\ (wpc[w] = "exited" /\ wpc'[w] = "backoff") =>
                    /\ attempts < wjob[w].max_retries
                    /\ jobs' = jobs
                    /\ dlq' = dlq
              /\ (wpc[w] = "backoff" /\ wpc'[w] = "idle") =>
                    /\ attempts < wjob[w].max_retries
                    /\ jobs'[id].state = "pending"
                    /\ jobs'[id].attempts = attempts
                    /\ dlq' = dlq
              /\ (wpc[w] = "exited" /\ wpc'[w] = "dlq") =>
                    /\ attempts >= wjob[w].max_retries
                    /\ DOMAIN jobs' = DOMAIN jobs
                    /\ jobs'[id].state = "dead"
                    /\ jobs'[id].attempts = attempts
                    /\ now' = now
                    /\ dlq' = dlq
              /\ (wpc[w] = "dlq" /\ wpc'[w] = "idle") =>
                    /\ id \in DOMAIN dlq'
                    /\ dlq'[id].id = id
                    /\ dlq'[id].command = wjob[w].command
                    /\ dlq'[id].attempts = wloc[w].attempts
                    /\ dlq'[id].max_retries = wloc[w].max_retries
                    /\ wloc[w].attempts >= wloc[w].max_retries
                    /\ jobs' = jobs]_vars

\* A job with max_retries 1 is dead after its first failure, its DLQ record
\* about to be written, while another worker sleeps before a retry.
C3_Witness ==
    \E w, v \in Workers :
        /\ wpc[w] = "dlq"
        /\ wloc[w].max_retries = 1
        /\ wloc[w].attempts = 1
        /\ jobs[wjob[w].id].state = "dead"
        /\ wpc[v] = "backoff"

\* C4 as stated: a job with max_retries 3 whose every execution fails is set
\* to dead on its fourth failure, that is, from a row that has attempts 3
\* stored.
C4_DeadOnFourthFailure ==
    [][\A id \in DOMAIN jobs :
          (/\ jobs[id].max_retries = 3
           /\ jobs[id].state = "processing"
           /\ jobs'[id].state = "dead") => jobs[id].attempts = 3]_vars

\* C4 as amended: run by one worker, such a job is returned to pending twice,
\* with attempts 1 and 2 stored, and is set to dead by its third failure,
\* with attempts 3 stored.
C4_DeadOnThirdFailure ==
    [][\A id \in DOMAIN jobs :
          (/\ jobs[id].max_retries = 3
           /\ jobs[id].state = "processing"
           /\ jobs'[id].state # "processing") =>
              \/ /\ jobs'[id].state = "pending"
                 /\ jobs[id].attempts \in {0, 1}
                 /\ jobs'[id].attempts = jobs[id].attempts + 1
              \/ /\ jobs'[id].state = "dead"
                 /\ jobs[id].attempts = 2
                 /\ jobs'[id].attempts = 3]_vars

\* The job with max_retries 3 is dead with attempts 3 and has its DLQ record.
C4_Witness ==
    \E id \in DOMAIN jobs \cap DOMAIN dlq :
        /\ jobs[id].max_retries = 3
        /\ jobs[id].state = "dead"
        /\ jobs[id].attempts = 3
        /\ dlq[id].attempts = 3

\* C5: every DLQ record has attempts equal to its max_retries.
C5_DlqAttemptsFrozen ==
    \A id \in DOMAIN dlq : dlq[id].attempts = dlq[id].max_retries

\* n factors of b.
RECURSIVE Power(_, _)
Power(b, n) == IF n = 0 THEN 1 ELSE b * Power(b, n - 1)

\* C6: the delay a worker sleeps before retry N is base_backoff^N, N being
\* the attempts count after the failed execution; for base_backoff 2 that
\* is 2, 4, 8 for N = 1, 2, 3; and for base_backoff > 1 it exceeds the delay
\* of every earlier retry.
C6_Backoff ==
    \A w \in Workers :
        wpc[w] = "backoff" =>
            LET n == wjob[w].attempts + 1
                b == ToInt(config["base_backoff"])
                d == wloc[w].delay
            IN  /\ d = Power(b, n)
                /\ wloc[w].wake <= now + d
                /\ b = 2 => /\ n = 1 => d = 2
                            /\ n = 2 => d = 4
                            /\ n = 3 => d = 8
                /\ b > 1 => \A m \in 1..(n - 1) : Power(b, m) < d

\* The third failure of a job under base_backoff 2: the worker sleeps 8 s.
C6_Witness ==
    \E w \in Workers :
        /\ wpc[w] = "backoff"
        /\ wloc[w].base_backoff = 2
        /\ wloc[w].attempts = 3
        /\ wloc[w].delay = 8

\* C7: re-admission reset.  The commit of retry_job leaves the jobs row of
\* the DLQ record's id pending with attempts 0 and the record's id, command
\* and max_retries, leaves no DLQ record for the id and every other row as
\* it was; and the DLQ record of an id disappears only in a step that leaves
\* that id's job pending with attempts 0 (one commit).
C7_ReadmissionReset ==
    [][/\ \A o \in Ops :
             (opc[o] = "found" /\ opc'[o] = "idle") =>
                LET r == orow[o]
                IN  /\ r.id \in DOMAIN jobs'
                    /\ jobs'[r.id].id = r.id
                    /\ jobs'[r.id].state = "pending"
                    /\ jobs'[r.id].attempts = 0
                    /\ jobs'[r.id].command = r.command
                    /\ jobs'[r.id].max_retries = r.max_retries
                    /\ r.id \notin DOMAIN dlq'
                    /\ \A i \in DOMAIN jobs \ {r.id} : i \in DOMAIN jobs' /\ jobs'[i] = jobs[i]
                    /\ \A i \in DOMAIN dlq \ {r.id} : i \in DOMAIN dlq' /\ dlq'[i] = dlq[i]
       /\ \A id \in DOMAIN dlq :
             id \notin DOMAIN dlq' =>
                /\ id \in DOMAIN jobs'
                /\ jobs'[id].state = "pending"
                /\ jobs'[id].attempts = 0
                /\ jobs'[id].command = dlq[id].command
                /\ jobs'[id].max_retries = dlq[id].max_retries]_vars

\* A dead-lettered job has been re-admitted: retry_job returned the job, the
\* row is pending with attempts 0 and the DLQ record is gone.
C7_Witness ==
    \E o \in Ops :
        /\ oret[o].ret = "Job"
        /\ oret[o].id \in DOMAIN jobs
        /\ jobs[oret[o].id].state = "pending"
        /\ jobs[oret[o].id].attempts = 0
        /\ oret[o].id \notin DOMAIN dlq

\* C8: retry_job of an id with no DLQ record returns None and leaves the
\* jobs and dlq tables unchanged; a retry_job that succeeds leaves no DLQ
\* record for the id, so calling it again returns None; and retry_job goes
\* on to re-insert only an id that has a DLQ record.
C8_RetryUnknownId ==
    [][\A o \in Ops :
          /\ (oret'[o] # oret[o] /\ oret'[o].ret = "None") =>
                /\ oret'[o].id \notin DOMAIN dlq
                /\ jobs' = jobs
                /\ dlq' = dlq
                /\ opc'[o] = "idle"
          /\ (oret'[o] # oret[o] /\ oret'[o].ret = "Job") =>
                /\ oret'[o].id \notin DOMAIN dlq'
          /\ (opc[o] = "idle" /\ opc'[o] = "found") =>
                /\ orow'[o].id \in DOMAIN dlq
                /\ UNCHANGED <<jobs, dlq>>]_vars

\* retry_job of an id that has a job but no DLQ record has returned None.
C8_Witness ==
    \E o \in Ops :
        /\ oret[o].ret = "None"
        /\ oret[o].id \in DOMAIN jobs
        /\ oret[o].id \notin DOMAIN dlq
        /\ jobs[oret[o].id].state = "pending"

\* C9: the row a worker's SELECT picks has the lowest priority value among
\* the due pending rows (stated for rows created at different times, where
\* the query's ORDER BY leaves no tie).
C9_PriorityOrder ==
    [][\A w \in Workers :
          (/\ wpc[w] = "idle"
           /\ wpc'[w] = "selected"
           /\ \A i, k \in DOMAIN jobs : i # k => jobs[i].created_at # jobs[k].created_at) =>
              \A k \in DOMAIN jobs :
                  IsDue(jobs[k], now) => wjob'[w].priority <= jobs[k].priority]_vars

\* C10: a pending row whose run_at is later than the current time is not
\* claimed: no step makes it processing.
C10_ScheduledVisibility ==
    [][\A id \in DOMAIN jobs :
          (/\ jobs[id].state = "pending"
           /\ jobs[id].run_at # NULL
           /\ jobs[id].run_at > now) => jobs'[id].state # "processing"]_vars

C12_ShutdownDrains ==
    [][/\ \A w \in Workers :
             (wpc[w] # "stopped" /\ wpc'[w] = "stopped") =>
                /\ wpc[w] = "idle"
                /\ stop_event
                /\ wjob[w] = NoJob
                /\ jobs' = jobs
       /\ \A id \in DOMAIN jobs' :
             jobs'[id].state = "processing" =>
                \E w \in Workers : wpc'[w] \in Handling /\ wjob'[w].id = id]_vars

\* The stop event was set while a worker executed a job: another worker has
\* left its loop, this one is still at its job.
C12_Witness ==
    \E w, v \in Workers :
        /\ stop_event
        /\ wpc[w] = "stopped"
        /\ wpc[v] = "exited"
        /\ jobs[wjob[v].id].state = "processing"

\* C13: once the control table holds shutdown = "1", every worker
\* eventually leaves its loop.
C13_ControlShutdown ==
    (control["shutdown"] = "1") ~> (\A w \in Workers : wpc[w] = "stopped")

\* C14: a storage fault is not a job failure.  A worker whose job's command
\* exited 0 never applies the retry policy to it: it neither sleeps a
\* backoff for it nor sets it dead.
C14_FaultIsNotFailure ==
    \A w \in Workers : wexit[w] = "0" => wpc[w] \notin {"backoff", "dlq"}

\* C15: the loop survives storage faults.  A worker that is polling (at
\* the heartbeat write, the claim SELECT or the claim UPDATE) stays in its
\* loop or leaves it by the stop signal; and a worker that is no longer
\* running has no heartbeat row.
C15_LoopSurvivesFaults ==
    [][\A w \in Workers :
          /\ wpc[w] \in {"idle", "selected"} =>
                wpc'[w] \in {"idle", "selected", "claimed", "stopped"}
          /\ wpc'[w] \in {"crashed", "stopped"} => w \notin DOMAIN heartbeats']_vars

\* C16: every job that is in state processing eventually leaves it.
C16_OutcomeNeverLost ==
    \A id \in ConcIds :
        (id \in DOMAIN jobs /\ jobs[id].state = "processing")
            ~> (id \in DOMAIN jobs /\ jobs[id].state # "processing")

\* C17: malformed submission never reaches the store.  Every stored row has
\* a command, and a run_at that is null or an ISO timestamp.
C17_MalformedRejected ==
    \A id \in DOMAIN jobs :
        /\ jobs[id].command # ""
        /\ jobs[id].run_at # NotIso

\* C18: submission creates pending jobs.  A row that enters the jobs table
\* has state pending and attempts 0.
C18_SubmittedPending ==
    [][\A id \in DOMAIN jobs' \ DOMAIN jobs :
          /\ jobs'[id].state = "pending"
          /\ jobs'[id].attempts = 0]_vars

\* C19: max_retries defaults from configuration.  A job submitted without a
\* max_retries of its own is dead-lettered according to the configuration
\* entry: it is dead only with as many attempts as config max_retries says.
C19_MaxRetriesFromConfig ==
    \A id \in DOMAIN jobs :
        jobs[id].state = "dead" => jobs[id].attempts = ToInt(ConfigGet("max_retries", "3"))

\* C20: one metric row per terminal outcome.  Whenever no worker is in the
\* middle of a job, the metrics table has as many rows as there are jobs
\* that became completed or dead (each job of the outcome specification
\* becomes so at most once), and each such job has its row.
C20_MetricPerTerminalOutcome ==
    (\A w \in Workers : wpc[w] = "idle") =>
        LET done == {id \in DOMAIN jobs : jobs[id].state \in {"completed", "dead"}}
        IN  /\ Cardinality(metrics) = Cardinality(done)
            /\ \A id \in done : \E m \in metrics : m.job_id = id

Rows(table) == {table[i] : i \in DOMAIN table}

C23_ConfigFallback ==
    [][\A w \in Workers :
          wpc[w] = "claimed" =>
             /\ wpc'[w] \in {"claimed", "running"}
             /\ (wpc'[w] = "running" /\ ~IsInt(ConfigGet("base_backoff", "2"))) =>
                   wloc'[w].base_backoff = 2]_vars

\* C24: a configuration key that has no row is seeded with its default
\* (max_retries 3, base_backoff 2, job_timeout_sec 60) and a row that
\* exists is changed by a set of that key only; get(k) after set(k, v)
\* returns str(v); get of a key without a row returns the default given.
C24_ConfigRoundTrip ==
    [][/\ \A k \in DOMAIN config :
             /\ k \in DOMAIN config'
             /\ config'[k] # config[k] => (ccall' # ccall /\ ccall'.key = k)
       /\ \A k \in DOMAIN config' \ DOMAIN config :
             \/ ccall' # ccall /\ ccall'.key = k
             \/ k = "max_retries" /\ config'[k] = "3"
             \/ k = "base_backoff" /\ config'[k] = "2"
             \/ k = "job_timeout_sec" /\ config'[k] = "60"
       /\ (cret'.op = "get" /\ ccall'.op = "set" /\ cret'.key = ccall'.key) =>
             IF "int" \in DOMAIN ccall'.value
             THEN IsInt(cret'.value) /\ ToInt(cret'.value) = ccall'.value.int
             ELSE cret'.value = ccall'.value.text
       /\ (cret'.op = "get" /\ cret'.key \notin DOMAIN config') =>
             cret'.value = cret'.default]_vars

C24_Witness ==
    /\ cret.op = "get" /\ ccall.op = "set" /\ cret.key = ccall.key
    /\ ccall.key = "base_backoff" /\ "int" \in DOMAIN ccall.value
    /\ config["max_retries"] = "fast" /\ config["job_timeout_sec"] = "60"
    /\ "poll_interval" \notin DOMAIN config

\* C25: heartbeat lifecycle.  Once the stop event is set every worker
\* eventually has left its loop and has no heartbeat row; a worker that
\* has left its loop has no row; and while a worker's row exists it is the
\* one row under the worker's id, its started_at never changes and its
\* last_seen never moves back.
C25_HeartbeatLifecycle ==
    /\ [][\A w \in Workers :
             /\ w \in DOMAIN heartbeats' => heartbeats'[w].worker_id = w
             /\ (wpc[w] # "stopped" /\ wpc'[w] = "stopped") => w \notin DOMAIN heartbeats'
             /\ (w \in DOMAIN heartbeats /\ w \in DOMAIN heartbeats') =>
                   /\ heartbeats'[w].started_at = heartbeats[w].started_at
                   /\ heartbeats'[w].last_seen >= heartbeats[w].last_seen]_vars
    /\ stop_event ~> (\A w \in Workers : wpc[w] = "stopped" /\ w \notin DOMAIN heartbeats)

C25_Witness ==
    \E w, v \in Workers :
        /\ stop_event
        /\ wpc[w] = "stopped" /\ w \notin DOMAIN heartbeats
        /\ wpc[v] = "exited"
        /\ v \in DOMAIN heartbeats /\ heartbeats[v].last_seen > heartbeats[v].started_at

\* C26: no reclaim after a crash.  A row in state processing whose worker
\* has crashed is changed by no step, and no worker that did not hold it
\* comes to hold it as claimed, running or finished.
C26_NoReclaim ==
    [][\A id \in DOMAIN jobs :
          (/\ jobs[id].state = "processing"
           /\ \E w \in Workers : wpc[w] = "crashed" /\ wjob[w].id = id) =>
             /\ jobs'[id] = jobs[id]
             /\ \A v \in Workers :
                   (wpc'[v] \in Handling /\ wjob'[v].id = id) =>
                      (wpc[v] \in Handling /\ wjob[v].id = id)]_vars

\* A job's worker has crashed in its backoff sleep; the other worker has
\* claimed the other job since.
C26_Witness ==
    \E w, v \in Workers :
        /\ wpc[w] = "crashed" /\ jobs[wjob[w].id].state = "processing"
        /\ wloc[w].attempts = 2
        /\ wpc[v] = "claimed" /\ wjob[v].id # wjob[w].id

\* C27: every job row whose state is not dead has attempts <= max_retries.
C27_AttemptsBound ==
    \A id \in DOMAIN jobs :
        jobs[id].state # "dead" => jobs[id].attempts <= jobs[id].max_retries

\* C28: a worker writes an outcome (completed, pending after the backoff,
\* dead) only to a row that is in state processing at that moment.
C28_FinishFromProcessing ==
    [][\A w \in Workers :
          (wpc[w] \in {"exited", "backoff"} /\ wpc'[w] \in {"idle", "dlq"}) =>
             /\ wjob[w].id \in DOMAIN jobs
             /\ jobs[wjob[w].id].state = "processing"]_vars

\* C29: a worker that has claimed a job and is about to execute it holds
\* the attempts value the row has, so that the attempts it writes counts
\* every execution started since the job was admitted.
C29_AttemptsCountExecutions ==
    \A w \in Workers :
        wpc[w] = "claimed" => wjob[w].attempts = jobs[wjob[w].id].attempts

\* C30: backoff blocks one worker only.  While a worker sleeps its backoff
\* the job stays processing and no other worker comes to hold it; the
\* worker returns it to pending no sooner than base_backoff ** attempts
\* seconds after the claim.  (That the other workers go on claiming during
\* the sleep is the witness.)
C30_BackoffBlocksOneWorker ==
    [][\A w \in Workers :
          wpc[w] = "backoff" =>
             LET id == wjob[w].id
             IN  /\ jobs[id].state = "processing"
                 /\ \A v \in Workers \ {w} :
                       ~(wpc'[v] \in Handling /\ wjob'[v].id = id)
                 /\ jobs'[id].state # "processing" =>
                       /\ wpc'[w] = "idle"
                       /\ jobs'[id].state = "pending"
                       /\ now >= jobs[id].updated_at
                                   + Power(ToInt(config["base_backoff"]), wloc[w].attempts)]_vars

\* While one worker is in its backoff sleep, the other worker has claimed
\* another job after the sleep began.
C30_Witness ==
    \E w, v \in Workers :
        /\ wpc[w] = "backoff" /\ now < wloc[w].wake
        /\ wpc[v] = "running" /\ wjob[v].id # wjob[w].id
        /\ jobs[wjob[v].id].updated_at > wloc[w].wake - wloc[w].delay

\* C31: persisted states.  Every job row has a state among pending,
\* processing, completed and dead (never failed), and the state of a row
\* changes only from pending to processing, from processing to completed,
\* pending or dead, and from dead to pending.
C31_PersistedStates ==
    [][\A id \in DOMAIN jobs' :
          /\ jobs'[id].state \in {"pending", "processing", "completed", "dead"}
          /\ (id \in DOMAIN jobs /\ jobs'[id].state # jobs[id].state) =>
                <<jobs[id].state, jobs'[id].state>> \in
                    {<<"pending", "processing">>, <<"processing", "completed">>,
                     <<"processing", "pending">>, <<"processing", "dead">>,
                     <<"dead", "pending">>}]_vars

\* C32: terminal states are terminal for workers.  A row in state
\* completed or dead is changed only by an admission (a submission or a
\* DLQ retry), never by a worker step, and no worker claims it.
C32_TerminalForWorkers ==
    [][\A id \in DOMAIN jobs :
          jobs[id].state \in {"completed", "dead"} =>
             /\ jobs'[id] # jobs[id] => (ccall' # ccall \/ opc' # opc)
             /\ \A w \in Workers :
                   (wpc[w] = "selected" /\ wjob[w].id = id) => wpc'[w] # "claimed"]_vars

\* A worker thread that is in its loop.
Running(w) == wpc[w] \notin {"stopped", "crashed"}

\* C33: heartbeat ids are unique per running worker.  The heartbeat table
\* has one row for each running worker that has written its heartbeat,
\* and a worker that leaves its loop removes the heartbeat row of no
\* worker that is still running.
C33_HeartbeatIdsUnique ==
    [][/\ Cardinality(DOMAIN heartbeats') =
             Cardinality({w \in Workers : wpc'[w] \notin {"stopped", "crashed"} /\ wnext'[w] > 0})
       /\ \A w, v \in Workers :
             (/\ w # v /\ Running(w) /\ wpc'[w] = "stopped"
              /\ Running(v) /\ WorkerId(v) \in DOMAIN heartbeats) =>
                WorkerId(v) \in DOMAIN heartbeats']_vars

\* C34: the frame of the claim.  A successful claim makes the one row
\* processing and sets its updated_at; the row's other fields, every other
\* job row, the dlq table and the config table stay as they are.  The
\* SELECT of a claim and a claim that loses the race change none of them.
C34_ClaimFrame ==
    [][\A w \in Workers :
          /\ (wpc[w] = "selected" /\ wpc'[w] = "claimed") =>
                LET id == wjob[w].id
                IN  /\ jobs[id].state = "pending" /\ jobs'[id].state = "processing"
                    /\ jobs'[id].updated_at = now
                    /\ \A f \in {"id", "command", "attempts", "max_retries", "priority",
                                  "run_at", "created_at"} : jobs'[id][f] = jobs[id][f]
                    /\ DOMAIN jobs' = DOMAIN jobs
                    /\ \A i \in DOMAIN jobs \ {id} : jobs'[i] = jobs[i]
                    /\ dlq' = dlq /\ config' = config
          /\ (wpc[w] = "selected" /\ wpc'[w] = "idle") =>
                (jobs' = jobs /\ dlq' = dlq /\ config' = config)
          /\ (wpc[w] = "idle" /\ wpc'[w] = "selected") =>
                (jobs' = jobs /\ dlq' = dlq /\ config' = config)]_vars

\* A job is claimed for its second execution, two seconds or more after
\* it was submitted, while the other job is dead and in the DLQ.
C34_Witness ==
    \E w \in Workers :
        /\ wpc[w] = "claimed"
        /\ jobs[wjob[w].id].attempts = 1
        /\ jobs[wjob[w].id].updated_at > jobs[wjob[w].id].created_at + 1
        /\ dlq # << >>

\* C35: dead-lettering is atomic for observers.  Every job row in state
\* dead has a DLQ record with its id.
C35_DeadHasDlqRecord ==
    \A id \in DOMAIN jobs : jobs[id].state = "dead" => id \in DOMAIN dlq

\* C36: DLQ records refer to dead jobs.  Whenever the dlq table has a
\* record for an id, the jobs table has a row with that id in state dead.
C36_DlqRefersToDead ==
    \A id \in DOMAIN dlq : id \in DOMAIN jobs /\ jobs[id].state = "dead"

\* C37: re-admission while in flight is safe.  No two workers have the
\* same job id in hand, and a row that is pending is changed only by a
\* claim (to processing) or by an admission, never by the outcome write
\* of a worker.
C37_ReadmissionInFlight ==
    [][/\ \A w, v \in Workers :
             (w # v /\ wpc'[w] \in Handling /\ wpc'[v] \in Handling) =>
                wjob'[w].id # wjob'[v].id
       /\ \A id \in DOMAIN jobs :
             (jobs[id].state = "pending" /\ jobs'[id] # jobs[id]) =>
                \/ jobs'[id].state = "processing"
                \/ ccall' # ccall
                \/ opc' # opc]_vars

\* C38: every claimed job terminates.  A job that is in state processing
\* eventually is completed or dead, whatever its executions return, an
\* always-failing job included.
C38_ClaimedJobTerminates ==
    \A id \in ConcIds :
        (id \in DOMAIN jobs /\ jobs[id].state = "processing")
            ~> (id \in DOMAIN jobs /\ jobs[id].state \in {"completed", "dead"})

\* A job with max_retries 2 is dead after its second failed execution.
C38_Witness ==
    \E id \in DOMAIN jobs :
        /\ jobs[id].state = "dead" /\ jobs[id].max_retries = 2 /\ jobs[id].attempts = 2
        /\ id \in DOMAIN dlq

\* C39: no starvation of due jobs.  A job that is pending and due is
\* eventually claimed, whatever is submitted or retried in the meantime.
C39_NoStarvation ==
    \A id \in ConcIds :
        (/\ id \in DOMAIN jobs /\ jobs[id].state = "pending"
         /\ (jobs[id].run_at = NULL \/ jobs[id].run_at <= now))
            ~> (id \in DOMAIN jobs /\ jobs[id].state = "processing")

\* A job that was dead and retried from the DLQ is pending with a worker
\* at the other job, which has failed once before.
C39_Witness ==
    \E id \in DOMAIN jobs : \E w \in Workers : \E o \in Ops :
        /\ jobs[id].state = "pending" /\ oret[o] = [id |-> id, ret |-> "Job"]
        /\ wpc[w] = "running" /\ wjob[w].id # id /\ wjob[w].attempts = 1

\* C40: DLQ retry resets the scheduling fields too.  The row retry_job
\* writes has priority 5, run_at null and created_at and updated_at of the
\* moment of the retry, and the id, command and max_retries of the DLQ
\* record, whatever the row it replaces held.
C40_RetryResetsSchedule ==
    [][\A o \in Ops :
          (opc[o] = "found" /\ opc'[o] = "idle") =>
             LET id == orow[o].id
             IN  /\ jobs'[id].priority = 5
                 /\ jobs'[id].run_at = NULL
                 /\ jobs'[id].created_at = now /\ jobs'[id].updated_at = now
                 /\ jobs'[id].id = id
                 /\ jobs'[id].command = orow[o].command
                 /\ jobs'[id].max_retries = orow[o].max_retries]_vars

\* The job, submitted with a --run-at and a priority of 0 or 1, has been
\* dead-lettered and retried later than it was submitted: the row has
\* priority 5 and no run_at.
C40_Witness ==
    \E o \in Ops : \E id \in RetryIds :
        /\ oret[o] = [id |-> id, ret |-> "Job"]
        /\ id \in DOMAIN jobs /\ id \notin DOMAIN dlq
        /\ jobs[id].state = "pending" /\ jobs[id].attempts = 0
        /\ jobs[id].priority = DefaultPriority /\ jobs[id].run_at = NULL
        /\ jobs[id].created_at = SchedTime

====
